---- MODULE Spec2Model ----
(***************************************************************************)
(* Model of bq-rust: a boolean query language (& | ! parentheses, quoted   *)
(* keywords) compiled by parser.rs into a Node tree and evaluated on a     *)
(* text by matcher.rs with Knuth-Morris-Pratt substring search.            *)
(*                                                                         *)
(* A character is its Unicode code point, a string a sequence of           *)
(* characters, a byte vector a sequence of 0..255.  Rust indexes from 0,   *)
(* TLA+ sequences from 1: the model keeps the Rust values of i and j and   *)
(* adds 1 at each indexing.  A Rust Result is <<"Ok", v>> or               *)
(* <<"Err", msg>>; a panic (index out of bounds) is <<"Panic">>.           *)
(***************************************************************************)
EXTENDS Integers, Sequences, FiniteSets, TLC

VARIABLES query, text, derivation, pc, tokenised, leftover, handle, answer, visited

vars == <<query, text, derivation, pc, tokenised, leftover, handle, answer, visited>>

Ok(v) == <<"Ok", v>>
Err(msg) == <<"Err", msg>>
Panic == <<"Panic">>
None == <<"None">>

IsOk(r) == r[1] = "Ok"
IsErr(r) == r[1] = "Err"
IsPanic(r) == r[1] = "Panic"

(***************************************************************************)
(* Characters used by the inputs of the model.                             *)
(***************************************************************************)
DQuote == 34
SQuote == 39
Amp == 38
Bar == 124
Bang == 33
LPar == 40
RPar == 41
Space == 32
Tab == 9
Newline == 10
Return == 13
LowerA == 97
LowerB == 98
LowerC == 99
LowerI == 105
UpperA == 65
UpperIDot == 304
CombDotAbove == 775

(***************************************************************************)
(* Strings: String::into_bytes (UTF-8) and str::to_lowercase.              *)
(***************************************************************************)
RECURSIVE Flatten(_)
Flatten(ss) == IF ss = <<>> THEN <<>> ELSE Head(ss) \o Flatten(Tail(ss))

\* UTF-8 encoding of one code point below U+10000.
Utf8(c) ==
    IF c < 128 THEN <<c>>
    ELSE IF c < 2048 THEN <<192 + (c \div 64), 128 + (c % 64)>>
    ELSE <<224 + (c \div 4096), 128 + ((c \div 64) % 64), 128 + (c % 64)>>

into_bytes(s) == Flatten([k \in 1..Len(s) |-> Utf8(s[k])])

\* char::to_lowercase on the characters of the model: ASCII capitals move
\* to their small letters, U+0130 becomes "i" followed by U+0307, every
\* other character of the model (digits, signs, small letters, combining
\* marks) is its own lowercase.
char_to_lowercase(c) ==
    IF c >= 65 /\ c <= 90 THEN <<c + 32>>
    ELSE IF c = UpperIDot THEN <<LowerI, CombDotAbove>>
    ELSE <<c>>

to_lowercase(s) == Flatten([k \in 1..Len(s) |-> char_to_lowercase(s[k])])

(***************************************************************************)
(* parser.rs: kmp_table.                                                   *)
(***************************************************************************)
RECURSIVE kmp_table_fallback(_, _, _)
\* The inner while of kmp_table: both sides of != index s1 at j+1.
kmp_table_fallback(s1, next, j) ==
    IF (j > -1) /\ (s1[(j + 1) + 1] # s1[(j + 1) + 1])
    THEN kmp_table_fallback(s1, next, next[j + 1])
    ELSE j

RECURSIVE kmp_table_loop(_, _, _, _)
kmp_table_loop(s1, i, j, next) ==
    IF i < Len(s1)
    THEN LET j1 == kmp_table_fallback(s1, next, j)
             j2 == IF s1[i + 1] = s1[(j1 + 1) + 1] THEN j1 + 1 ELSE j1
         IN kmp_table_loop(s1, i + 1, j2, [next EXCEPT ![i + 1] = j2])
    ELSE next

\* next[0] = -1 is out of bounds on an empty vector.
kmp_table(s1) ==
    LET next == [k \in 1..Len(s1) |-> 0]
    IN IF Len(s1) = 0 THEN Panic
       ELSE Ok(kmp_table_loop(s1, 1, -1, [next EXCEPT ![1] = -1]))

(***************************************************************************)
(* matcher.rs: kmp.  The loops return Ok(j), Ok(bool) or Panic.            *)
(***************************************************************************)
RECURSIVE kmp_fallback(_, _, _, _)
\* while (j > -1) & (s1[j+1] != s2[i]) { j = table[j] }: & evaluates both
\* operands, so s1 is indexed at j+1 whatever j is.
kmp_fallback(table, s1, c, j) ==
    IF j + 1 >= Len(s1) THEN Panic
    ELSE IF (j > -1) /\ (s1[(j + 1) + 1] # c)
    THEN IF j >= Len(table) THEN Panic
         ELSE kmp_fallback(table, s1, c, table[j + 1])
    ELSE Ok(j)

RECURSIVE kmp_loop(_, _, _, _, _)
kmp_loop(table, s1, s2, i, j) ==
    IF i < Len(s2)
    THEN LET f == kmp_fallback(table, s1, s2[i + 1], j)
         IN IF IsPanic(f) THEN Panic
            ELSE LET j1 == f[2]
                     j2 == IF s2[i + 1] = s1[(j1 + 1) + 1] THEN j1 + 1 ELSE j1
                 IN IF j2 = Len(s1) - 1 THEN Ok(TRUE)
                    ELSE kmp_loop(table, s1, s2, i + 1, j2)
    ELSE Ok(FALSE)

kmp(table, s1, s2) ==
    kmp_loop(table, into_bytes(to_lowercase(s1)), into_bytes(to_lowercase(s2)), 0, -1)

(***************************************************************************)
(* parser.rs: Token, Node and tokenise_query.                              *)
(***************************************************************************)
TokAND == <<"AND">>
TokOR == <<"OR">>
TokNOT == <<"NOT">>
TokLParen == <<"LParen">>
TokRParen == <<"RParen">>
Keyword(s) == <<"Keyword", s>>

AND(a, b) == <<"AND", a, b>>
OR(a, b) == <<"OR", a, b>>
NOT(a) == <<"NOT", a>>
Leaf(keyword, jumptable) == <<"Leaf", keyword, jumptable>>

ErrLetter == "Found an alphabetic character when either a quote, parenthesis, or operator was expected"
ErrCharacter == "found an unexpected character"
ErrClosing == "Expected closing parentheses after expression"
ErrToken == "Unexpected token "
ErrEnd == "Unexpected end of input"

IsAlphabetic(c) == (c >= 97 /\ c <= 122) \/ (c >= 65 /\ c <= 90)

RECURSIVE tokenise_loop(_, _, _, _, _)
\* One turn of "while let Some(c) = query.next()"; n counts the characters
\* already taken from the iterator.
tokenise_loop(q, n, quotes, current_token, tokens) ==
    IF n >= Len(q) THEN Ok(tokens)
    ELSE LET c == q[n + 1] IN
         IF quotes
         THEN IF c = DQuote
              THEN tokenise_loop(q, n + 1, FALSE, <<>>, Append(tokens, Keyword(current_token)))
              ELSE tokenise_loop(q, n + 1, quotes, Append(current_token, c), tokens)
         ELSE IF c = DQuote THEN tokenise_loop(q, n + 1, TRUE, <<>>, tokens)
         ELSE IF IsAlphabetic(c) THEN Err(ErrLetter)
         ELSE IF c = Amp THEN tokenise_loop(q, n + 1, quotes, current_token, Append(tokens, TokAND))
         ELSE IF c = Bar THEN tokenise_loop(q, n + 1, quotes, current_token, Append(tokens, TokOR))
         ELSE IF c = Bang THEN tokenise_loop(q, n + 1, quotes, current_token, Append(tokens, TokNOT))
         ELSE IF c = LPar THEN tokenise_loop(q, n + 1, quotes, current_token, Append(tokens, TokLParen))
         ELSE IF c = RPar THEN tokenise_loop(q, n + 1, quotes, current_token, Append(tokens, TokRParen))
         ELSE IF c \in {Space, Tab, Newline, Return}
              THEN tokenise_loop(q, n + 1, quotes, current_token, tokens)
         ELSE Err(ErrCharacter)

tokenise_query(q) == tokenise_loop(q, 0, FALSE, <<>>, <<>>)

(***************************************************************************)
(* parser.rs: the recursive-descent parser.  A builder returns             *)
(* <<"Ok", node, tokens>> with the queue as it leaves it, <<"Err", msg>>   *)
(* or <<"Panic">>.                                                         *)
(***************************************************************************)
Built(node, tokens) == <<"Ok", node, tokens>>

RECURSIVE build_query(_)
RECURSIVE build_query_loop(_, _)
RECURSIVE build_or_group(_)
RECURSIVE build_or_group_loop(_, _)
RECURSIVE build_and_group(_)

build_and_group(tokens) ==
    IF tokens = <<>> THEN Err(ErrEnd)
    ELSE LET t == Head(tokens)
             rest == Tail(tokens)
         IN IF t = TokNOT
            THEN LET r == build_and_group(rest)
                 IN IF IsOk(r) THEN Built(NOT(r[2]), r[3]) ELSE r
            ELSE IF t[1] = "Keyword"
            THEN LET table == kmp_table(into_bytes(t[2]))
                 IN IF IsPanic(table) THEN Panic
                    ELSE Built(Leaf(t[2], table[2]), rest)
            ELSE IF t = TokLParen
            THEN LET r == build_query(rest)
                 IN IF ~IsOk(r) THEN r
                    ELSE IF r[3] # <<>> /\ Head(r[3]) = TokRParen
                    THEN Built(r[2], Tail(r[3]))
                    ELSE Err(ErrClosing)
            ELSE Err(ErrToken)

\* build_or_group_loop with the operand after an AND built by
\* build_or_group: a chain of ANDs would nest to the right.
build_or_group_loop_right(left, tokens) ==
    IF tokens = <<>> THEN Built(left, tokens)
    ELSE IF Head(tokens) = TokAND
    THEN LET r == build_or_group(Tail(tokens))
         IN IF IsOk(r) THEN Built(AND(left, r[2]), r[3]) ELSE r
    ELSE Built(left, tokens)

\* while let Some(t) = tokens.pop_front() of build_or_group.
build_or_group_loop(left, tokens) ==
    IF tokens = <<>> THEN Built(left, tokens)
    ELSE IF Head(tokens) = TokAND
    THEN LET r == build_and_group(Tail(tokens))
         IN IF IsOk(r) THEN build_or_group_loop(AND(left, r[2]), r[3]) ELSE r
    ELSE Built(left, tokens)

build_or_group(tokens) ==
    LET r == build_and_group(tokens)
    IN IF IsOk(r) THEN build_or_group_loop(r[2], r[3]) ELSE r

\* while let Some(t) = tokens.pop_front() of build_query.
build_query_loop(left, tokens) ==
    IF tokens = <<>> THEN Built(left, tokens)
    ELSE IF Head(tokens) = TokOR
    THEN LET r == build_or_group(Tail(tokens))
         IN IF IsOk(r) THEN build_query_loop(OR(left, r[2]), r[3]) ELSE r
    ELSE Built(left, tokens)

build_query(tokens) ==
    LET r == build_or_group(tokens)
    IN IF IsOk(r) THEN build_query_loop(r[2], r[3]) ELSE r

\* build_bquery owns the queue and returns only the node.
build_bquery(tokens) ==
    LET r == build_query(tokens)
    IN IF IsOk(r) THEN Ok(r[2]) ELSE r

parser_from(s) ==
    LET ts == tokenise_query(s)
    IN IF IsOk(ts) THEN build_bquery(ts[2]) ELSE ts

(***************************************************************************)
(* matcher.rs: Matcher.  match_bquery returns <<result, calls>>: result is *)
(* Ok(bool) or Panic, calls the leaves handed to kmp, in order, each named *)
(* by its path from the root (1 = first child, 2 = second child).          *)
(***************************************************************************)
Matcher_from(s) == parser_from(s)

RECURSIVE match_bquery(_, _, _)
\* match_bquery with & in place of &&: the second child of an AND is
\* evaluated whatever the first child gave.
match_bquery_eager(node, s, path) ==
    IF node[1] = "AND"
    THEN LET a == match_bquery(node[2], s, Append(path, 1))
             b == match_bquery(node[3], s, Append(path, 2))
         IN IF IsPanic(a[1]) THEN a
            ELSE IF IsPanic(b[1]) THEN <<b[1], a[2] \o b[2]>>
            ELSE <<Ok(a[1][2] /\ b[1][2]), a[2] \o b[2]>>
    ELSE IF node[1] = "OR"
    THEN LET a == match_bquery(node[2], s, Append(path, 1))
         IN IF IsPanic(a[1]) \/ a[1][2] THEN a
            ELSE LET b == match_bquery(node[3], s, Append(path, 2))
                 IN <<b[1], a[2] \o b[2]>>
    ELSE IF node[1] = "NOT"
    THEN LET a == match_bquery(node[2], s, Append(path, 1))
         IN IF IsPanic(a[1]) THEN a ELSE <<Ok(~a[1][2]), a[2]>>
    ELSE <<kmp(node[3], node[2], s), <<path>>>>

match_bquery(node, s, path) ==
    IF node[1] = "AND"
    THEN LET a == match_bquery(node[2], s, Append(path, 1))
         IN IF IsPanic(a[1]) \/ ~a[1][2] THEN a
            ELSE LET b == match_bquery(node[3], s, Append(path, 2))
                 IN <<b[1], a[2] \o b[2]>>
    ELSE IF node[1] = "OR"
    THEN LET a == match_bquery(node[2], s, Append(path, 1))
         IN IF IsPanic(a[1]) \/ a[1][2] THEN a
            ELSE LET b == match_bquery(node[3], s, Append(path, 2))
                 IN <<b[1], a[2] \o b[2]>>
    ELSE IF node[1] = "NOT"
    THEN LET a == match_bquery(node[2], s, Append(path, 1))
         IN IF IsPanic(a[1]) THEN a ELSE <<Ok(~a[1][2]), a[2]>>
    ELSE <<kmp(node[3], node[2], s), <<path>>>>

Matcher_query(m, s) == match_bquery(m, s, <<>>)

(***************************************************************************)
(* Inputs.  A run compiles one query string and applies the handle to one  *)
(* text.  The query strings come from five families: a quoted keyword in   *)
(* small letters, a quoted keyword in mixed case, a quoted keyword with    *)
(* characters whose lowercase has another length in bytes, every short     *)
(* string over the characters the tokeniser tells apart, and the strings   *)
(* derived from the grammar of the query language.                         *)
(***************************************************************************)
MaxKeyLen == 4
MaxTextLen == 6
MaxCaseKeyLen == 3
MaxCaseTextLen == 4
MaxWideKeyLen == 2
MaxWideTextLen == 4
MaxQueryLen == 4
MaxOps == 2

Strings(alphabet, lo, hi) == UNION {[1..n -> alphabet] : n \in lo..hi}

Quoted(k) == <<DQuote>> \o k \o <<DQuote>>

LowerChars == {LowerA, LowerB}
CaseChars == {LowerA, UpperA, LowerB}
WideKeyChars == {UpperIDot, LowerI}
WideTextChars == {LowerI, CombDotAbove, 776}
QueryChars == {DQuote, SQuote, LowerA, Amp, RPar, Space}
KeywordChars == {LowerA, LowerB, LowerC}

\* The derivation trees of the grammar with exactly n operators; a leaf of
\* a derivation is <<"Leaf", keyword>>.
RECURSIVE Derivations(_)
Derivations(n) ==
    IF n = 0 THEN {<<"Leaf", <<c>>>> : c \in KeywordChars}
    ELSE {NOT(x) : x \in Derivations(n - 1)}
         \cup UNION {{AND(l, r) : l \in Derivations(m), r \in Derivations(n - 1 - m)} : m \in 0..(n - 1)}
         \cup UNION {{OR(l, r) : l \in Derivations(m), r \in Derivations(n - 1 - m)} : m \in 0..(n - 1)}

AllDerivations == UNION {Derivations(n) : n \in 0..MaxOps}

\* The sentence of a derivation: expression := term (OR term)*,
\* term := factor (AND factor)*, factor := NOT factor | Keyword |
\* '(' expression ')', with parentheses only where the grammar needs them.
RECURSIVE Expression(_)
RECURSIVE Term(_)
RECURSIVE Factor(_)
Expression(d) ==
    IF d[1] = "OR" THEN Expression(d[2]) \o <<Bar>> \o Term(d[3]) ELSE Term(d)
Term(d) ==
    IF d[1] = "AND" THEN Term(d[2]) \o <<Amp>> \o Factor(d[3]) ELSE Factor(d)
Factor(d) ==
    IF d[1] = "NOT" THEN <<Bang>> \o Factor(d[2])
    ELSE IF d[1] = "Leaf" THEN Quoted(d[2])
    ELSE <<LPar>> \o Expression(d) \o <<RPar>>

\* The same derivation with every operand in parentheses and blanks around
\* the operators.
RECURSIVE Spelled(_)
Spelled(d) ==
    IF d[1] = "OR" THEN <<LPar>> \o Spelled(d[2]) \o <<RPar, Space, Bar, Tab>> \o <<LPar>> \o Spelled(d[3]) \o <<RPar>>
    ELSE IF d[1] = "AND" THEN <<LPar>> \o Spelled(d[2]) \o <<RPar, Newline, Amp, Return>> \o <<LPar>> \o Spelled(d[3]) \o <<RPar>>
    ELSE IF d[1] = "NOT" THEN <<Bang, Space, LPar>> \o Spelled(d[2]) \o <<RPar>>
    ELSE Quoted(d[2])

\* The texts applied to a grammar query: one per set of keywords, the
\* keywords it contains written in increasing order.
KeywordTexts ==
    {s \in Strings(KeywordChars, 0, Cardinality(KeywordChars)) :
        \A n \in 1..(Len(s) - 1) : s[n] < s[n + 1]}

Given(q, s, d) == query = q /\ text = s /\ derivation = d

LowerInputs ==
    \E k \in Strings(LowerChars, 0, MaxKeyLen), s \in Strings(LowerChars, 0, MaxTextLen) :
        Given(Quoted(k), s, None)
CaseInputs ==
    \E k \in Strings(CaseChars, 1, MaxCaseKeyLen), s \in Strings(CaseChars, 0, MaxCaseTextLen) :
        Given(Quoted(k), s, None)
WideInputs ==
    \E k \in Strings(WideKeyChars, 1, MaxWideKeyLen), s \in Strings(WideTextChars, 0, MaxWideTextLen) :
        Given(Quoted(k), s, None)
QueryInputs ==
    \E q \in Strings(QueryChars, 0, MaxQueryLen) : Given(q, <<LowerA>>, None)
GrammarInputs ==
    \E d \in AllDerivations, s \in KeywordTexts :
        Given(Expression(d), s, d) \/ Given(Spelled(d), s, d)

Inputs == LowerInputs \/ CaseInputs \/ WideInputs \/ QueryInputs \/ GrammarInputs

(***************************************************************************)
(* The run: Matcher::from(query), then Matcher::query(text) on the handle. *)
(***************************************************************************)
Init ==
    /\ Inputs
    /\ pc = "start"
    /\ tokenised = None
    /\ leftover = None
    /\ handle = None
    /\ answer = None
    /\ visited = <<>>

\* Matcher::from: tokenise_query, then build_bquery.  tokenised and leftover
\* record the token queue as tokenise_query returned it and as build_query
\* left it.
From ==
    /\ pc = "start"
    /\ pc' = "compiled"
    /\ tokenised' = tokenise_query(query)
    /\ leftover' = IF IsOk(tokenised') /\ IsOk(build_query(tokenised'[2]))
                   THEN build_query(tokenised'[2])[3]
                   ELSE None
    /\ handle' = Matcher_from(query)
    /\ UNCHANGED <<query, text, derivation, answer, visited>>

\* Matcher::query on the handle Matcher::from returned.
Query ==
    /\ pc = "compiled"
    /\ IsOk(handle)
    /\ pc' = "queried"
    /\ answer' = Matcher_query(handle[2], text)[1]
    /\ visited' = Matcher_query(handle[2], text)[2]
    /\ UNCHANGED <<query, text, derivation, tokenised, leftover, handle>>

Next == From \/ Query

Spec == Init /\ [][Next]_vars

(***************************************************************************)
(* Vocabulary of the properties.                                           *)
(***************************************************************************)
\* k occurs in t as a contiguous substring.
Occurs(k, t) == \E n \in 0..(Len(t) - Len(k)) : SubSeq(t, n + 1, n + Len(k)) = k

IsSmall(s) == \A n \in 1..Len(s) : s[n] >= 97 /\ s[n] <= 122
IsAscii(s) == \A n \in 1..Len(s) : s[n] < 128

AsciiLower(s) == [n \in 1..Len(s) |-> IF s[n] >= 65 /\ s[n] <= 90 THEN s[n] + 32 ELSE s[n]]

\* The query is one keyword between double quotes and nothing else.
OneKeyword(q) ==
    /\ Len(q) >= 2
    /\ q[1] = DQuote
    /\ q[Len(q)] = DQuote
    /\ \A n \in 2..(Len(q) - 1) : q[n] # DQuote

\* The query is one keyword between single quotes and nothing else.
OneSingleQuoted(q) ==
    /\ Len(q) >= 2
    /\ q[1] = SQuote
    /\ q[Len(q)] = SQuote
    /\ \A n \in 2..(Len(q) - 1) : q[n] # DQuote /\ q[n] # SQuote

Inner(q) == SubSeq(q, 2, Len(q) - 1)

\* Without single quotes in the query, the end of input is inside a literal
\* exactly when the number of double quotes is odd.
EndsInsideQuote(q) ==
    /\ \A n \in 1..Len(q) : q[n] # SQuote
    /\ Cardinality({n \in 1..Len(q) : q[n] = DQuote}) % 2 = 1

\* Length of the longest proper prefix of p that is also a suffix of p.
Border(p) ==
    LET ls == {l \in 0..(Len(p) - 1) : SubSeq(p, 1, l) = SubSeq(p, Len(p) - l + 1, Len(p))}
    IN CHOOSE l \in ls : \A m \in ls : m <= l

FailureTable(s) == [k \in 1..Len(s) |-> Border(SubSeq(s, 1, k)) - 1]

\* The node without the jump tables of its leaves.
RECURSIVE Skeleton(_)
Skeleton(node) ==
    IF node[1] = "Leaf" THEN <<"Leaf", node[2]>>
    ELSE IF node[1] = "NOT" THEN NOT(Skeleton(node[2]))
    ELSE <<node[1], Skeleton(node[2]), Skeleton(node[3])>>

\* The boolean formula of a node: each leaf replaced by its substring test.
RECURSIVE Value(_, _)
Value(node, s) ==
    IF node[1] = "AND" THEN Value(node[2], s) /\ Value(node[3], s)
    ELSE IF node[1] = "OR" THEN Value(node[2], s) \/ Value(node[3], s)
    ELSE IF node[1] = "NOT" THEN ~Value(node[2], s)
    ELSE kmp(node[3], node[2], s) = Ok(TRUE)

RECURSIVE NodePaths(_)
NodePaths(node) ==
    IF node[1] = "Leaf" THEN {<<>>}
    ELSE IF node[1] = "NOT" THEN {<<>>} \cup {<<1>> \o p : p \in NodePaths(node[2])}
    ELSE {<<>>} \cup {<<1>> \o p : p \in NodePaths(node[2])}
                \cup {<<2>> \o p : p \in NodePaths(node[3])}

RECURSIVE Sub(_, _)
Sub(node, p) == IF p = <<>> THEN node ELSE Sub(node[Head(p) + 1], Tail(p))

IsPrefix(p, r) == Len(p) <= Len(r) /\ SubSeq(r, 1, Len(p)) = p

\* p is to the left of r in the tree.
LeftOf(p, r) ==
    \E n \in 1..Len(p) :
        /\ n <= Len(r)
        /\ SubSeq(p, 1, n - 1) = SubSeq(r, 1, n - 1)
        /\ p[n] < r[n]

Under(p) == {n \in 1..Len(visited) : IsPrefix(p, visited[n])}

(***************************************************************************)
(* Properties.                                                             *)
(***************************************************************************)

\* C1: a handle compiled from one quoted non-empty keyword k in small
\* letters answers true on a text t in small letters exactly when k occurs
\* in t as a contiguous substring.
C1_QueryIffSubstring ==
    (/\ pc = "queried"
     /\ OneKeyword(query)
     /\ Inner(query) # <<>>
     /\ IsSmall(Inner(query))
     /\ IsSmall(text))
    => answer = Ok(Occurs(Inner(query), text))

\* C2: for an ASCII keyword and an ASCII text the answer is the answer that
\* the keyword and the text written in small letters give.
C2_CaseInsensitive ==
    (/\ pc = "queried"
     /\ OneKeyword(query)
     /\ Inner(query) # <<>>
     /\ IsAscii(Inner(query))
     /\ IsAscii(text))
    => answer = Matcher_query(Matcher_from(Quoted(AsciiLower(Inner(query))))[2],
                              AsciiLower(text))[1]

\* C3: query returns the value of the boolean formula of the tree; the
\* leaves are tested from left to right, each at most once, no leaf of the
\* right child of an AND is tested when its left child is false, and no
\* leaf of the right child of an OR is tested when its left child is true.
C3_QueryIsShortCircuitFormula ==
    (pc = "queried" /\ IsOk(answer)) =>
        /\ answer[2] = Value(handle[2], text)
        /\ \A n \in 1..Len(visited) :
            /\ visited[n] \in NodePaths(handle[2])
            /\ Sub(handle[2], visited[n])[1] = "Leaf"
        /\ \A n \in 1..(Len(visited) - 1) : LeftOf(visited[n], visited[n + 1])
        /\ \A p \in NodePaths(handle[2]) :
            LET node == Sub(handle[2], p) IN
            /\ (node[1] = "AND" /\ ~Value(node[2], text)) => Under(Append(p, 2)) = {}
            /\ (node[1] = "OR" /\ Value(node[2], text)) => Under(Append(p, 2)) = {}
            /\ (node[1] \in {"AND", "OR"} /\ Under(Append(p, 2)) # {}) => Under(Append(p, 1)) # {}

\* C3 witness: !"a" & "b" was applied to a text with a: the left child of
\* the AND is false and only the leaf under the NOT was tested.
C3_Witness ==
    /\ pc = "queried"
    /\ Skeleton(handle[2]) = AND(NOT(<<"Leaf", <<LowerA>>>>), <<"Leaf", <<LowerB>>>>)
    /\ text = <<LowerA, LowerB>>
    /\ answer = Ok(FALSE)
    /\ visited = <<<<1, 1>>>>

\* C4: a query derived from the grammar compiles to the tree of its
\* derivation: NOT binds tighter than AND, AND tighter than OR, operators of
\* one tier nest to the left, a parenthesised expression is one operand.
C4_ParserBuildsDerivation ==
    (pc # "start" /\ derivation # None) =>
        /\ IsOk(handle)
        /\ Skeleton(handle[2]) = derivation

\* C4 witness: "a"|"b"&"c" compiled to OR(a, AND(b, c)).
C4_Witness ==
    /\ pc = "compiled"
    /\ query = Quoted(<<LowerA>>) \o <<Bar>> \o Quoted(<<LowerB>>) \o <<Amp>> \o Quoted(<<LowerC>>)
    /\ IsOk(handle)
    /\ Skeleton(handle[2]) =
           OR(<<"Leaf", <<LowerA>>>>, AND(<<"Leaf", <<LowerB>>>>, <<"Leaf", <<LowerC>>>>))

\* C5: when compile returns a handle no token is left in the queue.
C5_NoTokenLeft ==
    (pc # "start" /\ IsOk(handle)) => leftover = <<>>

\* C6: a query whose end is inside a quoted literal makes tokenise_query,
\* and compile, return an error.
C6_UnterminatedQuoteIsError ==
    (pc # "start" /\ EndsInsideQuote(query)) => (IsErr(tokenised) /\ IsErr(handle))

\* C7: a keyword between single quotes gives the one Keyword token that the
\* same keyword between double quotes gives.
C7_SingleQuotesOpenLiteral ==
    (pc # "start" /\ OneSingleQuoted(query)) =>
        /\ tokenised = Ok(<<Keyword(Inner(query))>>)
        /\ tokenised = tokenise_query(Quoted(Inner(query)))

\* C8: compiling the empty literal "" does not panic, and its leaf matches
\* every text.
C8_EmptyKeywordMatchesAll ==
    (pc # "start" /\ query = <<DQuote, DQuote>>) =>
        /\ IsOk(handle)
        /\ pc = "queried" => answer = Ok(TRUE)

\* C9: query on a handle that Matcher::from returned does not panic: every
\* index of kmp on the keyword and on the jump table is in range.
C9_QueryCannotFail ==
    pc = "queried" => IsOk(answer)

\* C10: the jump table of the leaf of a non-empty keyword has one entry per
\* byte, entry 0 is -1 and entry k is the length of the longest proper
\* prefix of the first k+1 bytes that is also their suffix, minus one.
C10_TableIsFailureFunction ==
    (pc # "start" /\ IsOk(handle) /\ handle[2][1] = "Leaf") =>
        handle[2][3] = FailureTable(into_bytes(handle[2][2]))

====
